---- MODULE Spec2Model ----
(***************************************************************************)
(* Allstacks MCP server: the API gateway shim (AllstacksAPIClient.request, *)
(* in its HTTP-Basic variant of allstacks_mcp/client.py and its bearer     *)
(* variant of server.py) and the tool functions that build one request     *)
(* descriptor each and serialise the shim's result.                        *)
(*                                                                         *)
(* Texts (URLs, bodies, messages, tool arguments) are sequences of units.  *)
(* A unit is a TLA+ string; the characters the code or the JSON grammar    *)
(* look at ('/', '?', '"', '\', '{', '}', '[', ']', ':', ',', '-', the     *)
(* digits) are always units of their own, every other unit is a run of     *)
(* characters none of which is one of these.  Insignificant JSON white     *)
(* space (json.dumps(indent=2)) is not represented.                        *)
(***************************************************************************)
EXTENDS Integers, Sequences, FiniteSets, TLC

(***************************************************************************)
(* Python / JSON values.  A value is a record tagged by t; Python's None   *)
(* is JNull, True/False are JBool, a dict is JObj of a function from keys  *)
(* to values, a list is JArr of a sequence, a str is JStr of a text.       *)
(***************************************************************************)
JNull == [t |-> "null"]

JBool(b) == [t |-> "bool", b |-> b]

JNum(n) == [t |-> "num", n |-> n]

JStr(s) == [t |-> "str", s |-> s]

JArr(a) == [t |-> "arr", a |-> a]

JObj(o) == [t |-> "obj", o |-> o]

EmptyDict == JObj(<<>>)

IsDict(v) == v.t = "obj"

HasKey(v, k) == IsDict(v) /\ k \in DOMAIN v.o

\* d[k] = v on a dict (later assignment wins)
DictSet(d, k, v) == JObj((k :> v) @@ d.o)

Quote == "\""

Backslash == "\\"

EscQuote == "\\\""

EscBackslash == "\\\\"

DigitUnits == <<"0", "1", "2", "3", "4", "5", "6", "7", "8", "9">>

IsDigit(u) == \E d \in 1..10 : DigitUnits[d] = u

DigitVal(u) == (CHOOSE d \in 1..10 : DigitUnits[d] = u) - 1

\* str(n) / f"{n}" for a non-negative integer
RECURSIVE NatToText(_)
NatToText(n) ==
    IF n < 10 THEN <<DigitUnits[n + 1]>>
    ELSE NatToText(n \div 10) \o <<DigitUnits[(n % 10) + 1]>>

\* str(n) / f"{n}" for an integer
IntToText(n) == IF n < 0 THEN <<"-">> \o NatToText(0 - n) ELSE NatToText(n)

\* s.lstrip('/')
RECURSIVE LStrip(_)
LStrip(s) ==
    IF s # <<>> /\ Head(s) = "/" THEN LStrip(Tail(s)) ELSE s

\* s.rstrip('/')
RECURSIVE RStrip(_)
RStrip(s) ==
    IF s # <<>> /\ s[Len(s)] = "/" THEN RStrip(SubSeq(s, 1, Len(s) - 1)) ELSE s

\* s.split(",")
RECURSIVE Split(_, _)
Split(s, cur) ==
    IF s = <<>> THEN <<JStr(cur)>>
    ELSE IF Head(s) = "," THEN <<JStr(cur)>> \o Split(Tail(s), <<>>)
    ELSE Split(Tail(s), Append(cur, Head(s)))

\* needle occurs in hay as a contiguous run of units
Contains(hay, needle) ==
    \E i \in 1..(Len(hay) + 1) :
        /\ i + Len(needle) - 1 <= Len(hay)
        /\ SubSeq(hay, i, i + Len(needle) - 1) = needle

(***************************************************************************)
(* json.loads / response.json(): a recursive-descent decoder over a text.  *)
(* A parse result is [ok, val, next]: next is the index after the value.   *)
(***************************************************************************)
ParseFail == [ok |-> FALSE, val |-> JNull, next |-> 0]

ParseOk(v, n) == [ok |-> TRUE, val |-> v, next |-> n]

Unescape(u) ==
    IF u = EscQuote THEN Quote ELSE IF u = EscBackslash THEN Backslash ELSE u

\* the string literal opening at s[i] = '"'
ParseString(s, i) ==
    LET closing == {j \in (i + 1)..Len(s) : s[j] = Quote}
    IN  IF closing = {} THEN ParseFail
        ELSE LET j == CHOOSE k \in closing : \A m \in closing : k <= m
                 body == SubSeq(s, i + 1, j - 1)
             IN  IF \E k \in 1..Len(body) : body[k] = Backslash THEN ParseFail
                 ELSE ParseOk(JStr([k \in 1..Len(body) |-> Unescape(body[k])]), j + 1)

RECURSIVE DigitsEnd(_, _)
DigitsEnd(s, i) ==
    IF i <= Len(s) /\ IsDigit(s[i]) THEN DigitsEnd(s, i + 1) ELSE i

RECURSIVE DigitsVal(_, _, _, _)
DigitsVal(s, i, j, acc) ==
    IF i >= j THEN acc ELSE DigitsVal(s, i + 1, j, acc * 10 + DigitVal(s[i]))

\* the integer literal at s[i]: -?(0|[1-9][0-9]*)
ParseNumber(s, i) ==
    LET neg == s[i] = "-"
        d == IF neg THEN i + 1 ELSE i
        e == DigitsEnd(s, d)
        len == IF s[d] = "0" THEN 1 ELSE e - d
        n == DigitsVal(s, d, d + len, 0)
    IN  IF d > Len(s) \/ e = d THEN ParseFail
        ELSE ParseOk(JNum(IF neg THEN 0 - n ELSE n), d + len)

\* the key of a dict entry: the characters of the string literal
RECURSIVE KeyOf(_)
KeyOf(s) == IF s = <<>> THEN "" ELSE Head(s) \o KeyOf(Tail(s))

\* insignificant whitespace between tokens
IsWhitespace(u) == u = " " \/ u = "\n" \/ u = "\r" \/ u = "\t"

\* the index of the first unit at or after i that is not whitespace
RECURSIVE SkipWhitespace(_, _)
SkipWhitespace(s, i) ==
    IF i <= Len(s) /\ IsWhitespace(s[i]) THEN SkipWhitespace(s, i + 1) ELSE i

\* the value at s[i]; the caller has skipped the whitespace before it
RECURSIVE ParseValue(_, _)
RECURSIVE ParseArray(_, _)
RECURSIVE ParseElems(_, _, _)
RECURSIVE ElemsNext(_, _, _)
RECURSIVE ElemsSeparator(_, _, _)
RECURSIVE ParseObject(_, _)
RECURSIVE ParseMembers(_, _, _)
RECURSIVE MemberColon(_, _, _)
RECURSIVE MemberValue(_, _, _, _)
RECURSIVE MemberNext(_, _, _, _)
RECURSIVE MembersSeparator(_, _, _)
ParseValue(s, i) ==
    IF i > Len(s) THEN ParseFail
    ELSE IF s[i] = "null" THEN ParseOk(JNull, i + 1)
    ELSE IF s[i] = "true" THEN ParseOk(JBool(TRUE), i + 1)
    ELSE IF s[i] = "false" THEN ParseOk(JBool(FALSE), i + 1)
    ELSE IF s[i] = Quote THEN ParseString(s, i)
    ELSE IF s[i] = "-" \/ IsDigit(s[i]) THEN ParseNumber(s, i)
    ELSE IF s[i] = "[" THEN ParseArray(s, SkipWhitespace(s, i + 1))
    ELSE IF s[i] = "{" THEN ParseObject(s, SkipWhitespace(s, i + 1))
    ELSE ParseFail

\* after "[": the empty list, or the elements
ParseArray(s, j) ==
    IF j <= Len(s) /\ s[j] = "]" THEN ParseOk(JArr(<<>>), j + 1)
    ELSE ParseElems(s, j, <<>>)

\* the element at s[i], then what follows it
ParseElems(s, i, acc) == ElemsNext(s, ParseValue(s, i), acc)

ElemsNext(s, r, acc) ==
    IF ~r.ok THEN ParseFail
    ELSE ElemsSeparator(s, SkipWhitespace(s, r.next), Append(acc, r.val))

\* after an element: "," and the next element, or "]"
ElemsSeparator(s, n, acc) ==
    IF n > Len(s) THEN ParseFail
    ELSE IF s[n] = "," THEN ParseElems(s, SkipWhitespace(s, n + 1), acc)
    ELSE IF s[n] = "]" THEN ParseOk(JArr(acc), n + 1)
    ELSE ParseFail

\* after "{": the empty dict, or the members
ParseObject(s, j) ==
    IF j <= Len(s) /\ s[j] = "}" THEN ParseOk(EmptyDict, j + 1)
    ELSE ParseMembers(s, j, <<>>)

\* the member whose key opens at s[i], then what follows it
ParseMembers(s, i, acc) ==
    IF i > Len(s) \/ s[i] # Quote THEN ParseFail
    ELSE MemberColon(s, ParseString(s, i), acc)

MemberColon(s, k, acc) ==
    IF ~k.ok THEN ParseFail
    ELSE MemberValue(s, KeyOf(k.val.s), SkipWhitespace(s, k.next), acc)

MemberValue(s, key, colon, acc) ==
    IF colon > Len(s) \/ s[colon] # ":" THEN ParseFail
    ELSE MemberNext(s, key, ParseValue(s, SkipWhitespace(s, colon + 1)), acc)

\* a repeated key keeps the later value
MemberNext(s, key, r, acc) ==
    IF ~r.ok THEN ParseFail
    ELSE MembersSeparator(s, SkipWhitespace(s, r.next), (key :> r.val) @@ acc)

\* after a member: "," and the next member, or "}"
MembersSeparator(s, n, acc) ==
    IF n > Len(s) THEN ParseFail
    ELSE IF s[n] = "," THEN ParseMembers(s, SkipWhitespace(s, n + 1), acc)
    ELSE IF s[n] = "}" THEN ParseOk(JObj(acc), n + 1)
    ELSE ParseFail

\* json.loads(s): ok is FALSE where json.JSONDecodeError is raised
JsonLoads(s) ==
    LET r == ParseValue(s, SkipWhitespace(s, 1))
    IN  IF r.ok /\ SkipWhitespace(s, r.next) = Len(s) + 1 THEN [ok |-> TRUE, val |-> r.val]
        ELSE [ok |-> FALSE, val |-> JNull]

(***************************************************************************)
(* json.dumps: the encoder.                                                *)
(***************************************************************************)
Escape(u) ==
    IF u = Quote THEN EscQuote ELSE IF u = Backslash THEN EscBackslash ELSE u

\* a string written between quotes with nothing escaped
DumpString_unescaped(s) == <<Quote>> \o s \o <<Quote>>

DumpString(s) == <<Quote>> \o [k \in 1..Len(s) |-> Escape(s[k])] \o <<Quote>>

\* json.dumps(v): the default separators ", " and ": "
RECURSIVE JsonDumps(_)
RECURSIVE DumpElems(_)
RECURSIVE DumpMembers(_, _)
JsonDumps(v) ==
    CASE v.t = "null" -> <<"null">>
      [] v.t = "bool" -> IF v.b THEN <<"true">> ELSE <<"false">>
      [] v.t = "num" -> IntToText(v.n)
      [] v.t = "str" -> DumpString(v.s)
      [] v.t = "arr" -> <<"[">> \o DumpElems(v.a) \o <<"]">>
      [] v.t = "obj" -> <<"{">> \o DumpMembers(v.o, DOMAIN v.o) \o <<"}">>

DumpElems(a) ==
    IF a = <<>> THEN <<>>
    ELSE IF Len(a) = 1 THEN JsonDumps(a[1])
    ELSE JsonDumps(a[1]) \o <<",", " ">> \o DumpElems(Tail(a))

DumpMembers(o, keys) ==
    IF keys = {} THEN <<>>
    ELSE LET k == CHOOSE x \in keys : TRUE
             m == DumpString(<<k>>) \o <<":", " ">> \o JsonDumps(o[k])
         IN  IF keys = {k} THEN m ELSE m \o <<",", " ">> \o DumpMembers(o, keys \ {k})

\* the newline and the indentation that open a line at nesting depth level
NewlineIndent(level) == <<"\n">> \o [k \in 1..(2 * level) |-> " "]

\* json.dumps(v, indent=2): one item per line, two spaces per nesting level,
\* separators "," and ": "; an empty list or dict stays on one line
RECURSIVE JsonDumpsIndent(_, _)
RECURSIVE DumpElemsIndent(_, _)
RECURSIVE DumpMembersIndent(_, _, _)
JsonDumpsIndent(v, level) ==
    CASE v.t = "null" -> <<"null">>
      [] v.t = "bool" -> IF v.b THEN <<"true">> ELSE <<"false">>
      [] v.t = "num" -> IntToText(v.n)
      [] v.t = "str" -> DumpString(v.s)
      [] v.t = "arr" ->
            IF v.a = <<>> THEN <<"[", "]">>
            ELSE <<"[">> \o DumpElemsIndent(v.a, level + 1)
                     \o NewlineIndent(level) \o <<"]">>
      [] v.t = "obj" ->
            IF DOMAIN v.o = {} THEN <<"{", "}">>
            ELSE <<"{">> \o DumpMembersIndent(v.o, DOMAIN v.o, level + 1)
                     \o NewlineIndent(level) \o <<"}">>

DumpElemsIndent(a, level) ==
    LET item == NewlineIndent(level) \o JsonDumpsIndent(a[1], level)
    IN  IF Len(a) = 1 THEN item
        ELSE item \o <<",">> \o DumpElemsIndent(Tail(a), level)

DumpMembersIndent(o, keys, level) ==
    LET k == CHOOSE x \in keys : TRUE
        m == NewlineIndent(level) \o DumpString(<<k>>) \o <<":", " ">>
                \o JsonDumpsIndent(o[k], level)
    IN  IF keys = {k} THEN m
        ELSE m \o <<",">> \o DumpMembersIndent(o, keys \ {k}, level)

(***************************************************************************)
(* Python truthiness, as the tools' `if value:` tests use it.              *)
(***************************************************************************)
Truthy(v) ==
    CASE v.t = "null" -> FALSE
      [] v.t = "bool" -> v.b
      [] v.t = "num" -> v.n # 0
      [] v.t = "str" -> v.s # <<>>
      [] v.t = "arr" -> v.a # <<>>
      [] v.t = "obj" -> DOMAIN v.o # {}

(***************************************************************************)
(* The client objects.                                                     *)
(***************************************************************************)
StaticHeaders ==
    ("Content-Type" :> "application/json") @@ ("Accept" :> "application/json")

\* allstacks_mcp/client.py: the HTTP Basic variant
AllstacksAPIClient(username, password, base_url) ==
    [username |-> username,
     password |-> password,
     base_url |-> RStrip(base_url),
     auth |-> <<username, password>>,
     headers |-> StaticHeaders]

\* server.py: the bearer-token variant
server_AllstacksAPIClient(token, base_url) ==
    [token |-> token,
     base_url |-> RStrip(base_url),
     headers |-> ("Authorization" :> ("Bearer " \o token)) @@ StaticHeaders]

\* client.request(...) called without headers=self.headers
request_send_no_headers(self, method, endpoint, params, data) ==
    [method |-> method,
     url |-> self.base_url \o <<"/">> \o LStrip(endpoint),
     auth |-> self.auth,
     headers |-> <<>>,
     params |-> params,
     json |-> data]

\* the keyword arguments of client.request(...) in allstacks_mcp/client.py
request_send(self, method, endpoint, params, data) ==
    [method |-> method,
     url |-> self.base_url \o <<"/">> \o LStrip(endpoint),
     auth |-> self.auth,
     headers |-> self.headers,
     params |-> params,
     json |-> data]

\* the token also passed as a Basic pair next to the bearer header
server_request_send_with_basic(self, method, endpoint, params, data) ==
    [method |-> method,
     url |-> self.base_url \o <<"/">> \o LStrip(endpoint),
     auth |-> <<self.token, "">>,
     headers |-> self.headers,
     params |-> params,
     json |-> data]

\* the keyword arguments of client.request(...) in server.py: no auth argument
server_request_send(self, method, endpoint, params, data) ==
    [method |-> method,
     url |-> self.base_url \o <<"/">> \o LStrip(endpoint),
     auth |-> <<>>,
     headers |-> self.headers,
     params |-> params,
     json |-> data]

(***************************************************************************)
(* What the upstream side of one round-trip can produce: an HTTP response  *)
(* (status, body text) or an exception raised by the transport.            *)
(***************************************************************************)
HttpResponse(status, body) ==
    [kind |-> "response", status |-> status, body |-> body, exc |-> "", msg |-> <<>>]

TransportError(exc, msg) ==
    [kind |-> "failure", status |-> 0, body |-> <<>>, exc |-> exc, msg |-> msg]

NoOutcome == [kind |-> "none", status |-> 0, body |-> <<>>, exc |-> "", msg |-> <<>>]

\* is_success taken as "not an error status" (below 400)
is_success_below_400(status) == status >= 200 /\ status <= 399

\* Response.is_success
is_success(status) == status >= 200 /\ status <= 299

\* the exception classes the handlers of request name, and what they catch
IsHTTPStatusError(exc) == exc = "HTTPStatusError"

\* `except httpx.HTTPError` in place of `except Exception`
IsException_httpx_only(exc) ==
    exc \in {"HTTPStatusError", "ConnectError", "ConnectTimeout", "ReadTimeout"}

IsException(exc) ==
    exc \in {"HTTPStatusError", "ConnectError", "ConnectTimeout", "ReadTimeout",
             "JSONDecodeError"}

JSONDecodeErrorText == <<"Expecting value", ":", " line 1 column 1 (char 0)">>

\* the decoded body wrapped into an envelope
request_try_enveloped(outcome) ==
    IF outcome.kind = "failure"
    THEN [exc |-> outcome.exc, val |-> JNull, msg |-> outcome.msg]
    ELSE IF ~is_success(outcome.status)
    THEN [exc |-> "HTTPStatusError", val |-> JNull, msg |-> <<>>]
    ELSE LET r == JsonLoads(outcome.body)
         IN  IF r.ok THEN [exc |-> "", val |-> JObj([data |-> r.val]), msg |-> <<>>]
             ELSE [exc |-> "JSONDecodeError", val |-> JNull, msg |-> JSONDecodeErrorText]

\* the try body after the await: raise_for_status() then response.json()
request_try(outcome) ==
    IF outcome.kind = "failure"
    THEN [exc |-> outcome.exc, val |-> JNull, msg |-> outcome.msg]
    ELSE IF ~is_success(outcome.status)
    THEN [exc |-> "HTTPStatusError", val |-> JNull, msg |-> <<>>]
    ELSE LET r == JsonLoads(outcome.body)
         IN  IF r.ok THEN [exc |-> "", val |-> r.val, msg |-> <<>>]
             ELSE [exc |-> "JSONDecodeError", val |-> JNull, msg |-> JSONDecodeErrorText]

\* the dict built by `except httpx.HTTPStatusError as e`
StatusErrorRecord(outcome) ==
    JObj([error |-> JBool(TRUE),
          status_code |-> JNum(outcome.status),
          message |-> JStr(<<"HTTP error", ":", " ">> \o outcome.body)])

\* the generic handler also filling in a status_code
OtherErrorRecord_with_status(msg) ==
    JObj([error |-> JBool(TRUE),
          status_code |-> JNum(0),
          message |-> JStr(<<"Request failed", ":", " ">> \o msg)])

\* the dict built by `except Exception as e`
OtherErrorRecord(msg) ==
    JObj([error |-> JBool(TRUE),
          message |-> JStr(<<"Request failed", ":", " ">> \o msg)])

\* an undecodable 2xx body handed back as text
request_finish_text_fallback(outcome) ==
    LET r == request_try(outcome)
    IN  IF r.exc = "" THEN [raised |-> FALSE, value |-> r.val]
        ELSE IF IsHTTPStatusError(r.exc)
        THEN [raised |-> FALSE, value |-> StatusErrorRecord(outcome)]
        ELSE IF r.exc = "JSONDecodeError"
        THEN [raised |-> FALSE, value |-> JStr(outcome.body)]
        ELSE IF IsException(r.exc)
        THEN [raised |-> FALSE, value |-> OtherErrorRecord(r.msg)]
        ELSE [raised |-> TRUE, value |-> JNull]

\* request from the await to its return statement: [raised, value]
request_finish(outcome) ==
    LET r == request_try(outcome)
    IN  IF r.exc = "" THEN [raised |-> FALSE, value |-> r.val]
        ELSE IF IsHTTPStatusError(r.exc)
        THEN [raised |-> FALSE, value |-> StatusErrorRecord(outcome)]
        ELSE IF IsException(r.exc)
        THEN [raised |-> FALSE, value |-> OtherErrorRecord(r.msg)]
        ELSE [raised |-> TRUE, value |-> JNull]

(***************************************************************************)
(* Bounds and input sets.                                                  *)
(***************************************************************************)
\* invocations the hosting agent issues, possibly concurrently
MaxCalls == 2

CallIds == 1..MaxCalls

Deployments == {"package", "server"}

\* the default of --base-url
DefaultBaseUrl == <<"https", ":", "/", "/", "api.allstacks.com", "/", "api", "/", "v1", "/">>

BaseUrls == {DefaultBaseUrl, <<"https", ":", "/", "/", "localhost", "/", "api">>}

Methods == {"GET", "POST", "PATCH", "PUT", "DELETE"}

Descriptor(method, endpoint, params, data) ==
    [method |-> method, endpoint |-> endpoint, params |-> params, data |-> data]

\* direct calls of request: every method without params and body, and a call
\* that carries a query mapping and a JSON body
RequestInputs ==
    {Descriptor(m, <<"metrics", "/">>, JNull, JNull) : m \in Methods}
    \cup {Descriptor("POST", <<"/", "project", "/", "1", "/", "configs", "/">>,
                     JObj([limit |-> JNum(5)]), JObj([name |-> JStr(<<"n">>)]))}

BodyA1 == <<"{", Quote, "a", Quote, ":", "1", "}">>

BodyErrorTrue == <<"{", Quote, "error", Quote, ":", "true", "}">>

BodyList == <<"[", "1", ",", "2", "]">>

BodyMalformed == <<"{", "bad">>

BodyNotFound == <<"{", Quote, "detail", Quote, ":", Quote, "Not found.", Quote, "}">>

\* what the upstream side can answer to one request
Outcomes ==
    {HttpResponse(200, BodyA1), HttpResponse(201, BodyErrorTrue),
     HttpResponse(200, BodyMalformed),
     HttpResponse(204, <<>>), HttpResponse(301, <<>>),
     HttpResponse(404, BodyNotFound), HttpResponse(500, <<"Server Error">>),
     TransportError("ConnectError", <<"All connection attempts failed">>),
     TransportError("ReadTimeout", <<>>)}

(***************************************************************************)
(* State.                                                                  *)
(***************************************************************************)
VARIABLES
    deployment,   \* which program runs: the package (client.py) or server.py
    api_client,   \* the client object, JNull (None) before it is constructed
    calls         \* per invocation: where it stands and what it has seen

vars == <<deployment, api_client, calls>>

NoValue == [t |-> "absent"]

\* pc: "idle" (not issued), "awaiting" (suspended in client.request),
\* "returned", "raised"; sent: the outbound requests of the invocation;
\* open: AsyncClient instances entered and not yet exited; outcome: what
\* the upstream answered; result: what request returned; ret: the string
\* the tool returned
IdleCall ==
    [pc |-> "idle", tool |-> "", args |-> <<>>, sent |-> <<>>, open |-> 0,
     outcome |-> NoOutcome, result |-> NoValue, ret |-> <<>>]

Init ==
    /\ deployment \in Deployments
    /\ api_client = JNull
    /\ calls = [c \in CallIds |-> IdleCall]

\* server.py __main__: parse the arguments, construct the client, run
Main(token, base_url) ==
    /\ deployment = "server"
    /\ api_client = JNull
    /\ api_client' = server_AllstacksAPIClient(token, base_url)
    /\ UNCHANGED <<deployment, calls>>

\* AllstacksAPIClient(username, password, base_url) of the package is constructed
client_init(username, password, base_url) ==
    /\ deployment = "package"
    /\ api_client = JNull
    /\ api_client' = AllstacksAPIClient(username, password, base_url)
    /\ UNCHANGED <<deployment, calls>>

\* a result cache in front of the round-trip: a call whose arguments an
\* earlier call has completed with returns the stored result
request_begin_cached(call, self, d) ==
    IF \E b \in CallIds : calls[b].pc = "returned" /\ calls[b].args = call.args
                              /\ calls[b].tool = call.tool
    THEN LET b == CHOOSE x \in CallIds : calls[x].pc = "returned" /\ calls[x].args = call.args
                                             /\ calls[x].tool = call.tool
         IN  [call EXCEPT !.pc = "returned", !.result = calls[b].result,
                          !.outcome = calls[b].outcome, !.ret = calls[b].ret]
    ELSE [call EXCEPT
            !.pc = "awaiting",
            !.open = @ + 1,
            !.sent = Append(@, IF "auth" \in DOMAIN self
                               THEN request_send(self, d.method, d.endpoint, d.params, d.data)
                               ELSE server_request_send(self, d.method, d.endpoint, d.params, d.data))]

\* the request issued twice: once to probe the endpoint, once for the answer
request_begin_probe_first(call, self, d) ==
    LET w == IF "auth" \in DOMAIN self
             THEN request_send(self, d.method, d.endpoint, d.params, d.data)
             ELSE server_request_send(self, d.method, d.endpoint, d.params, d.data)
    IN  [call EXCEPT !.pc = "awaiting", !.open = @ + 1, !.sent = Append(Append(@, w), w)]

\* request up to its await: open the per-request AsyncClient and issue the
\* one client.request(...)
request_begin(call, self, d) ==
    [call EXCEPT
        !.pc = "awaiting",
        !.open = @ + 1,
        !.sent = Append(@, IF "auth" \in DOMAIN self
                           THEN request_send(self, d.method, d.endpoint, d.params, d.data)
                           ELSE server_request_send(self, d.method, d.endpoint, d.params, d.data))]

\* a retry loop: a failed round-trip is issued again
request_end_retry(call, outcome) ==
    LET f == request_finish(outcome)
    IN  IF outcome.kind = "failure" \/ outcome.status >= 500
        THEN [call EXCEPT !.sent = Append(@, call.sent[1])]
        ELSE [call EXCEPT
                !.pc = IF f.raised THEN "raised" ELSE "returned",
                !.open = @ - 1,
                !.outcome = outcome,
                !.result = IF f.raised THEN NoValue ELSE f.value,
                !.ret = IF f.raised \/ call.tool = "request" THEN <<>>
                        ELSE JsonDumpsIndent(f.value, 0)]

\* the client closed on the success path only
request_end_leak_on_error(call, outcome) ==
    LET f == request_finish(outcome)
    IN  [call EXCEPT
            !.pc = IF f.raised THEN "raised" ELSE "returned",
            !.open = IF outcome.kind = "response" /\ is_success(outcome.status) THEN @ - 1 ELSE @,
            !.outcome = outcome,
            !.result = IF f.raised THEN NoValue ELSE f.value,
            !.ret = IF f.raised \/ call.tool = "request" THEN <<>>
                    ELSE JsonDumpsIndent(f.value, 0)]

\* request from the await on: leave the `async with` block and return (or
\* raise); a tool then returns json.dumps(result, indent=2)
request_end(call, outcome) ==
    LET f == request_finish(outcome)
    IN  [call EXCEPT
            !.pc = IF f.raised THEN "raised" ELSE "returned",
            !.open = @ - 1,
            !.outcome = outcome,
            !.result = IF f.raised THEN NoValue ELSE f.value,
            !.ret = IF f.raised \/ call.tool = "request" THEN <<>>
                    ELSE JsonDumpsIndent(f.value, 0)]

\* mcp.run() entered before the client is constructed
CanInvoke_before_client(c) ==
    /\ calls[c].pc = "idle"
    /\ \A b \in CallIds : b < c => calls[b].pc # "idle"

\* invocations taken one at a time: none starts while another is awaiting
CanInvoke_serialized(c) ==
    /\ api_client # JNull
    /\ calls[c].pc = "idle"
    /\ \A b \in CallIds : b < c => calls[b].pc # "idle"
    /\ \A b \in CallIds : calls[b].pc # "awaiting"

\* the next invocation the host issues
CanInvoke(c) ==
    /\ api_client # JNull
    /\ calls[c].pc = "idle"
    /\ \A b \in CallIds : b < c => calls[b].pc # "idle"

\* request assigning the joined URL back to self.base_url
CallRequest_rebinds_base_url(c, d) ==
    /\ CanInvoke(c)
    /\ calls' = [calls EXCEPT ![c] =
                    request_begin([IdleCall EXCEPT !.tool = "request", !.args = d],
                                  api_client, d)]
    /\ api_client' = [api_client EXCEPT !.base_url = @ \o <<"/">> \o LStrip(d.endpoint)]
    /\ UNCHANGED deployment

\* a caller invokes api_client.request(method, endpoint, params, data)
CallRequest(c, d) ==
    /\ CanInvoke(c)
    /\ calls' = [calls EXCEPT ![c] =
                    request_begin([IdleCall EXCEPT !.tool = "request", !.args = d],
                                  api_client, d)]
    /\ UNCHANGED <<deployment, api_client>>

\* the response kept in a slot all calls share: a resuming call reads what
\* an earlier call left there
Resume_shared_response(c, outcome) ==
    /\ calls[c].pc = "awaiting"
    /\ LET seen == {b \in CallIds : calls[b].outcome.kind # "none"}
           slot == IF seen = {} THEN outcome
                   ELSE calls[CHOOSE b \in seen : TRUE].outcome
       IN  calls' = [calls EXCEPT ![c] =
                        [request_end(calls[c], slot) EXCEPT !.outcome = outcome]]
    /\ UNCHANGED <<deployment, api_client>>

\* the upstream answers (or the transport fails) and the suspended call resumes
Resume(c, outcome) ==
    /\ calls[c].pc = "awaiting"
    /\ calls' = [calls EXCEPT ![c] = request_end(calls[c], outcome)]
    /\ UNCHANGED <<deployment, api_client>>

Tokens == {"tok"}

Usernames == {"user"}

Passwords == {"pw"}

Next ==
    \/ \E t \in Tokens, b \in BaseUrls : Main(t, b)
    \/ \E u \in Usernames, p \in Passwords, b \in BaseUrls : client_init(u, p, b)
    \/ \E c \in CallIds, d \in RequestInputs : CallRequest(c, d)
    \/ \E c \in CallIds, o \in Outcomes : Resume(c, o)

Spec == Init /\ [][Next]_vars

(***************************************************************************)
(* The tools.  A tool maps its arguments (after default binding: an        *)
(* omitted Optional parameter is None) to a plan: either one call of       *)
(* api_client.request, or a string returned without any request.           *)
(***************************************************************************)
PlanRequest(method, endpoint, params, data) ==
    [act |-> "request", d |-> Descriptor(method, endpoint, params, data), ret |-> <<>>]

PlanReturn(ret) ==
    [act |-> "return", d |-> Descriptor("", <<>>, JNull, JNull), ret |-> ret]

\* an exception the tool function does not catch
PlanRaise(exc) ==
    [act |-> "raise", d |-> Descriptor("", <<>>, JNull, JNull), ret |-> <<exc>>]

\* s.strip() of blanks
RECURSIVE StripBlanks(_)
StripBlanks(s) ==
    IF s # <<>> /\ Head(s) = " " THEN StripBlanks(Tail(s))
    ELSE IF s # <<>> /\ s[Len(s)] = " " THEN StripBlanks(SubSeq(s, 1, Len(s) - 1))
    ELSE s

\* int(x) for a str x: blanks around, an optional sign, then digits only;
\* anything else is a ValueError (ok = FALSE)
IntOf(x) ==
    LET t == StripBlanks(x)
        signed == t # <<>> /\ Head(t) \in {"-", "+"}
        digits == IF signed THEN Tail(t) ELSE t
    IN  IF digits = <<>> \/ \E i \in 1..Len(digits) : ~IsDigit(digits[i])
        THEN [ok |-> FALSE, val |-> JNull]
        ELSE [ok |-> TRUE,
              val |-> JNum(IF signed /\ Head(t) = "-"
                           THEN 0 - DigitsVal(digits, 1, Len(digits) + 1, 0)
                           ELSE DigitsVal(digits, 1, Len(digits) + 1, 0))]

\* [int(x) for x in ids.split(",")]: [ok, val], ok = FALSE when an int() raises
IntList(ids) ==
    LET tokens == Split(ids, <<>>)
        ints == [i \in 1..Len(tokens) |-> IntOf(tokens[i].s)]
    IN  IF \E i \in 1..Len(ints) : ~ints[i].ok THEN [ok |-> FALSE, val |-> JNull]
        ELSE [ok |-> TRUE, val |-> JArr([i \in 1..Len(ints) |-> ints[i].val])]

\* if cond: d[k] = v
SetIf(cond, d, k, v) == IF cond THEN DictSet(d, k, v) ELSE d

\* json.loads(x) if isinstance(x, str) else x, inside try/except JSONDecodeError
LoadsArg(x) ==
    IF x.t = "str" THEN JsonLoads(x.s) ELSE [ok |-> TRUE, val |-> x]

\* return json.dumps({"error": "Invalid JSON in <name> parameter"})
InvalidJsonReturn(name) ==
    PlanReturn(JsonDumps(JObj([error |-> JStr(<<"Invalid JSON", " in ", name, " parameter">>)])))

\* tools/metrics.py
list_metrics(a) ==
    PlanRequest("GET", <<"metrics", "/">>,
                SetIf(Truthy(a.project_id), EmptyDict, "project_id", a.project_id),
                JNull)

get_project_metrics_v2_data(a) ==
    LET endpoint == <<"project", "/">> \o IntToText(a.project_id.n)
                        \o <<"/", "metrics_v2", "/", "metrics">>
        config_dict == LoadsArg(a.config)
    IN  IF ~config_dict.ok THEN InvalidJsonReturn("config")
        ELSE PlanRequest("POST", endpoint, JNull, config_dict.val)

\* tools/labels.py
create_label(a) ==
    LET endpoint == <<"organization", "/">> \o IntToText(a.org_id.n) \o <<"/", "labels", "/">>
        d0 == JObj([name |-> a.name])
        d1 == SetIf(Truthy(a.label_family_id), d0, "label_family_id", a.label_family_id)
        d2 == SetIf(Truthy(a.description), d1, "description", a.description)
        d3 == SetIf(Truthy(a.color), d2, "color", a.color)
    IN  PlanRequest("POST", endpoint, JNull, d3)

update_label(a) ==
    LET endpoint == <<"organization", "/">> \o IntToText(a.org_id.n) \o <<"/", "labels", "/">>
                        \o IntToText(a.label_id.n) \o <<"/">>
        data == LoadsArg(a.label_data)
    IN  IF ~data.ok THEN InvalidJsonReturn("label_data")
        ELSE PlanRequest("PATCH", endpoint, JNull, data.val)

\* offset, limit and pin_filter attached under `if value:` like the others
get_parent_service_items_truthy(a) ==
    LET endpoint == <<"project", "/">> \o IntToText(a.project_id.n)
                        \o <<"/", "parent_service_items", "/">>
        p0 == JObj([time_zone |-> a.time_zone, order_direction |-> a.order_direction])
        p1 == SetIf(Truthy(a.parent_service_item_ids), p0, "parent_service_item_ids[]",
                    JArr(Split(a.parent_service_item_ids.s, <<>>)))
        p4 == SetIf(Truthy(a.service_id), p1, "service_id", a.service_id)
        p5 == SetIf(Truthy(a.offset), p4, "offset", a.offset)
        p6 == SetIf(Truthy(a.limit), p5, "limit", a.limit)
        p8 == SetIf(Truthy(a.order_by), p6, "order_by", a.order_by)
        p9 == SetIf(Truthy(a.pin_filter), p8, "pin_filter", a.pin_filter)
        p11 == SetIf(Truthy(a.fields), p9, "fields[]", JArr(Split(a.fields.s, <<>>)))
    IN  PlanRequest("GET", endpoint, p11, JNull)

\* tools/service_items.py
get_parent_service_items(a) ==
    LET endpoint == <<"project", "/">> \o IntToText(a.project_id.n)
                        \o <<"/", "parent_service_items", "/">>
        p0 == JObj([time_zone |-> a.time_zone, order_direction |-> a.order_direction])
        p1 == SetIf(Truthy(a.parent_service_item_ids), p0, "parent_service_item_ids[]",
                    JArr(Split(a.parent_service_item_ids.s, <<>>)))
        p2 == SetIf(Truthy(a.parent_service_item_types), p1, "parent_service_item_types[]",
                    JArr(Split(a.parent_service_item_types.s, <<>>)))
        p3 == SetIf(Truthy(a.parent_service_item_groups), p2, "parent_service_item_groups[]",
                    JArr(Split(a.parent_service_item_groups.s, <<>>)))
        p4 == SetIf(Truthy(a.service_id), p3, "service_id", a.service_id)
        p5 == SetIf(a.offset # JNull, p4, "offset", a.offset)
        p6 == SetIf(a.limit # JNull, p5, "limit", a.limit)
        p7 == SetIf(Truthy(a.parent_service_item_name), p6, "parent_service_item_name",
                    a.parent_service_item_name)
        p8 == SetIf(Truthy(a.order_by), p7, "order_by", a.order_by)
        p9 == SetIf(a.pin_filter # JNull, p8, "pin_filter", a.pin_filter)
        p10 == SetIf(Truthy(a.estimation_method_override), p9, "estimation_method_override",
                     a.estimation_method_override)
        p11 == SetIf(Truthy(a.fields), p10, "fields[]", JArr(Split(a.fields.s, <<>>)))
    IN  PlanRequest("GET", endpoint, p11, JNull)

delete_service_item_notes(a) ==
    PlanRequest("DELETE",
                <<"project", "/">> \o IntToText(a.project_id.n) \o <<"/", "service_item", "/">>
                    \o IntToText(a.milestone_item_id.n) \o <<"/", "notes">>,
                JNull, JNull)

update_metrics_filter_set(a) ==
    LET endpoint == <<"project", "/">> \o IntToText(a.project_id.n)
                        \o <<"/", "metrics_filter_sets", "/">>
                        \o IntToText(a.filter_set_id.n) \o <<"/">>
        d1 == SetIf(Truthy(a.name), EmptyDict, "name", a.name)
        fs == LoadsArg(a.filter_set)
    IN  IF Truthy(a.filter_set) /\ ~fs.ok THEN InvalidJsonReturn("filter_set")
        ELSE PlanRequest("PATCH", endpoint, JNull,
                         SetIf(Truthy(a.filter_set), d1, "filter_set", fs.val))

\* tools/users_teams.py
create_user_invite(a) ==
    LET endpoint == <<"organization", "/">> \o IntToText(a.org_id.n)
                        \o <<"/", "user_invites", "/">>
        d0 == JObj([email |-> a.email])
        d1 == SetIf(Truthy(a.role_id), d0, "role_id", a.role_id)
        projects == LoadsArg(a.projects)
    IN  IF Truthy(a.projects) /\ ~projects.ok THEN InvalidJsonReturn("projects")
        ELSE PlanRequest("POST", endpoint, JNull,
                         SetIf(Truthy(a.projects), d1, "projects", projects.val))

\* server.py
server_list_metrics(a) ==
    PlanRequest("GET", <<"metrics", "/">>,
                IF Truthy(a.org_id) THEN JObj([org_id |-> a.org_id]) ELSE EmptyDict,
                JNull)

server_get_gmdts_data(a) ==
    LET endpoint == <<"project", "/">> \o IntToText(a.project_id.n)
                        \o <<"/", "metrics", "/", "gmdts", "/">> \o a.metric_type.s \o <<"/">>
        p0 == JObj([start_date |-> a.start_date, end_date |-> a.end_date,
                    aggregation |-> a.aggregation, limit |-> a.limit])
        p1 == SetIf(Truthy(a.dimensions), p0, "dimensions", a.dimensions)
        p2 == SetIf(Truthy(a.group_by), p1, "group_by", a.group_by)
        p3 == SetIf(Truthy(a.filters), p2, "filters", a.filters)
    IN  PlanRequest("GET", endpoint, p3, JNull)

\* Python's built-in min and max on two integers
min(x, y) == IF y < x THEN y ELSE x

max(x, y) == IF y > x THEN y ELSE x

\* the depth argument forwarded as given
server_get_parent_service_items_unclamped(a) ==
    PlanRequest("GET",
                <<"project", "/">> \o IntToText(a.project_id.n)
                    \o <<"/", "service_items", "/", "parents", "/">>,
                JObj([service_item_ids |-> a.service_item_ids, depth |-> a.depth]),
                JNull)

server_get_parent_service_items(a) ==
    PlanRequest("GET",
                <<"project", "/">> \o IntToText(a.project_id.n)
                    \o <<"/", "service_items", "/", "parents", "/">>,
                JObj([service_item_ids |-> a.service_item_ids,
                      depth |-> JNum(min(max(a.depth.n, 1), 5))]),
                JNull)

server_get_metrics_v2_data(a) ==
    LET endpoint == <<"project", "/">> \o IntToText(a.project_id.n)
                        \o <<"/", "metrics", "/", "v2", "/", "data", "/">>
        config_dict == LoadsArg(a.config)
    IN  IF ~config_dict.ok THEN InvalidJsonReturn("config")
        ELSE PlanRequest("POST", endpoint, JNull, JObj([config |-> config_dict.val]))

server_create_metrics_v2_config(a) ==
    LET endpoint == <<"project", "/">> \o IntToText(a.project_id.n) \o <<"/", "configs", "/">>
        config_dict == LoadsArg(a.config)
    IN  IF ~config_dict.ok THEN InvalidJsonReturn("config")
        ELSE PlanRequest("POST", endpoint, JNull,
                         JObj([name |-> a.name, config |-> config_dict.val,
                               description |-> a.description]))

\* tools/metrics.py
get_generated_metric(a) ==
    PlanRequest("GET",
                <<"project", "/">> \o IntToText(a.project_id.n)
                    \o <<"/", "generated_metric", "/">> \o a.metric_type.s,
                JNull, JNull)

\* tools/service_items.py
get_service_items_for_metric(a) ==
    LET p0 == JObj([limit |-> a.limit, offset |-> a.offset])
    IN  PlanRequest("GET", <<"service_items", "/">> \o a.metric.s \o <<"/">>,
                    SetIf(Truthy(a.ordering), p0, "ordering", a.ordering), JNull)

get_item_props_by_type(a) ==
    PlanRequest("GET",
                <<"project", "/">> \o IntToText(a.project_id.n)
                    \o <<"/", "item_props", "/">> \o a.item_type.s \o <<"/">>,
                JNull, JNull)

\* tools/attainment.py
create_attainment_widget(a) ==
    LET endpoint == <<"organization", "/">> \o IntToText(a.org_id.n)
                        \o <<"/", "attainment", "/", "widgets", "/">>
        goal_ids == IntList(a.goal_ids.s)
    IN  IF ~goal_ids.ok THEN PlanRaise("ValueError")
        ELSE PlanRequest("POST", endpoint, JNull,
                         JObj([dashboard_id |-> a.dashboard_id, goal_ids |-> goal_ids.val,
                               widget_type |-> a.widget_type, title |-> a.title]))

\* tools/milestones.py
create_milestone(a) ==
    LET endpoint == <<"project", "/">> \o IntToText(a.project_id.n) \o <<"/", "milestones", "/">>
        d0 == JObj([name |-> a.name, target_date |-> a.target_date,
                    milestone_type |-> a.milestone_type])
        d1 == SetIf(Truthy(a.description), d0, "description", a.description)
        d2 == SetIf(Truthy(a.owner_id), d1, "owner_id", a.owner_id)
        work_item_ids == IF Truthy(a.work_item_ids) THEN IntList(a.work_item_ids.s)
                         ELSE [ok |-> TRUE, val |-> JNull]
    IN  IF ~work_item_ids.ok THEN PlanRaise("ValueError")
        ELSE PlanRequest("POST", endpoint, JNull,
                         SetIf(Truthy(a.work_item_ids), d2, "work_item_ids", work_item_ids.val))

\* tools/portfolio.py
create_portfolio(a) ==
    LET endpoint == <<"organization", "/">> \o IntToText(a.org_id.n) \o <<"/", "portfolios", "/">>
        d0 == JObj([name |-> a.name, description |-> a.description, owner_id |-> a.owner_id])
        project_ids == IF Truthy(a.project_ids) THEN IntList(a.project_ids.s)
                       ELSE [ok |-> TRUE, val |-> JNull]
    IN  IF ~project_ids.ok THEN PlanRaise("ValueError")
        ELSE PlanRequest("POST", endpoint, JNull,
                         SetIf(Truthy(a.project_ids), d0, "project_ids", project_ids.val))

\* tools/forecasting.py
get_forecast_v3(a) ==
    LET endpoint == <<"forecasting", "/">> \o IntToText(a.project_id.n) \o <<"/", "v3", "/">>
        p0 == JObj([confidence_level |-> a.confidence_level, time_zone |-> a.time_zone])
        p1 == SetIf(Truthy(a.work_bundle_ids), p0, "work_bundle_ids[]",
                    JArr(Split(a.work_bundle_ids.s, <<>>)))
        p2 == SetIf(Truthy(a.service_item_ids), p1, "service_item_ids[]",
                    JArr(Split(a.service_item_ids.s, <<>>)))
    IN  PlanRequest("GET", endpoint, p2, JNull)

\* the split list attached under the bare key
get_metrics_v2_item_props_bare_key(a) ==
    LET endpoint == <<"project", "/">> \o IntToText(a.project_id.n)
                        \o <<"/", "metrics_v2", "/", "item_props", "/">>
        p1 == SetIf(Truthy(a.item_types), EmptyDict, "item_types",
                    JArr(Split(a.item_types.s, <<>>)))
        p2 == SetIf(Truthy(a.search), p1, "search", a.search)
    IN  PlanRequest("GET", endpoint, p2, JNull)

\* tools/metrics.py
get_metrics_v2_item_props(a) ==
    LET endpoint == <<"project", "/">> \o IntToText(a.project_id.n)
                        \o <<"/", "metrics_v2", "/", "item_props", "/">>
        p1 == SetIf(Truthy(a.item_types), EmptyDict, "item_types[]",
                    JArr(Split(a.item_types.s, <<>>)))
        p2 == SetIf(Truthy(a.search), p1, "search", a.search)
    IN  PlanRequest("GET", endpoint, p2, JNull)

PackageTools ==
    {"metrics.list_metrics", "metrics.get_project_metrics_v2_data", "labels.create_label",
     "forecasting.get_forecast_v3", "metrics.get_metrics_v2_item_props",
     "attainment.create_attainment_widget", "milestones.create_milestone",
     "portfolio.create_portfolio", "metrics.get_generated_metric", "labels.update_label",
     "service_items.get_service_items_for_metric", "service_items.get_item_props_by_type",
     "service_items.get_parent_service_items", "service_items.delete_service_item_notes",
     "service_items.update_metrics_filter_set", "users_teams.create_user_invite"}

ServerTools ==
    {"server.list_metrics", "server.get_gmdts_data", "server.get_metrics_v2_data",
     "server.create_metrics_v2_config", "server.get_parent_service_items"}

\* the registered tool functions, by name
ToolPlan(tool, a) ==
    CASE tool = "metrics.list_metrics" -> list_metrics(a)
      [] tool = "metrics.get_project_metrics_v2_data" -> get_project_metrics_v2_data(a)
      [] tool = "labels.create_label" -> create_label(a)
      [] tool = "service_items.get_parent_service_items" -> get_parent_service_items(a)
      [] tool = "service_items.delete_service_item_notes" -> delete_service_item_notes(a)
      [] tool = "service_items.update_metrics_filter_set" -> update_metrics_filter_set(a)
      [] tool = "forecasting.get_forecast_v3" -> get_forecast_v3(a)
      [] tool = "metrics.get_metrics_v2_item_props" -> get_metrics_v2_item_props(a)
      [] tool = "attainment.create_attainment_widget" -> create_attainment_widget(a)
      [] tool = "milestones.create_milestone" -> create_milestone(a)
      [] tool = "portfolio.create_portfolio" -> create_portfolio(a)
      [] tool = "metrics.get_generated_metric" -> get_generated_metric(a)
      [] tool = "service_items.get_service_items_for_metric" -> get_service_items_for_metric(a)
      [] tool = "service_items.get_item_props_by_type" -> get_item_props_by_type(a)
      [] tool = "labels.update_label" -> update_label(a)
      [] tool = "users_teams.create_user_invite" -> create_user_invite(a)
      [] tool = "server.list_metrics" -> server_list_metrics(a)
      [] tool = "server.get_gmdts_data" -> server_get_gmdts_data(a)
      [] tool = "server.get_metrics_v2_data" -> server_get_metrics_v2_data(a)
      [] tool = "server.create_metrics_v2_config" -> server_create_metrics_v2_config(a)
      [] tool = "server.get_parent_service_items" -> server_get_parent_service_items(a)

(***************************************************************************)
(* Tool invocations.                                                       *)
(***************************************************************************)
\* tool invocations the hosting agent issues, possibly concurrently
MaxToolCalls == 1

Str(u) == JStr(<<u>>)

\* values of a parameter documented as a JSON string
JsonArgValues ==
    {JStr(<<"{", "}">>), JStr(BodyA1), JStr(BodyList), JStr(BodyMalformed), JStr(<<>>)}

\* values of a parameter documented as comma-separated ids
IdListValues ==
    {JStr(<<"1", "2", ",", "-", "3">>), JStr(<<"7">>), JStr(<<"1", ",", "x">>),
     JStr(<<"1", ",">>), JStr(<<>>)}

\* values of a string identifier substituted into an endpoint template
IdentifierValues ==
    {Str("velocity"), JStr(<<"a", "/", "b">>), JStr(<<"a", "?", "b">>),
     JStr(<<"..", "/", "..", "/", "admin">>)}

ParentItemsDefaults ==
    [project_id |-> JNum(1), parent_service_item_ids |-> JNull,
     parent_service_item_types |-> JNull, parent_service_item_groups |-> JNull,
     service_id |-> JNull, offset |-> JNull, limit |-> JNull, time_zone |-> Str("UTC"),
     parent_service_item_name |-> JNull, order_by |-> JNull,
     order_direction |-> Str("desc"), pin_filter |-> JNull,
     estimation_method_override |-> JNull, fields |-> JNull]

GmdtsDefaults ==
    [project_id |-> JNum(1), metric_type |-> Str("Velocity"),
     start_date |-> JStr(<<"2024", "-", "01", "-", "01">>),
     end_date |-> JStr(<<"2024", "-", "02", "-", "01">>),
     dimensions |-> JNull, filters |-> JNull, aggregation |-> Str("sum"),
     group_by |-> JNull, limit |-> JNum(1000)]

\* largest traversal depth a caller asks for
MaxDepth == 6

\* depth arguments below, inside and above the documented range 1-5
DepthValues == {JNum(n) : n \in (0 - 1)..MaxDepth}

ToolCall(tool, args) == [tool |-> tool, args |-> args]

PackageToolInputs ==
    {ToolCall("metrics.list_metrics", [project_id |-> v]) : v \in {JNull, JNum(7), JNum(0)}}
    \cup {ToolCall("metrics.get_project_metrics_v2_data", [project_id |-> JNum(12), config |-> v]) :
            v \in JsonArgValues}
    \cup {ToolCall("labels.create_label",
                   [org_id |-> JNum(1), name |-> Str("n"), label_family_id |-> f,
                    description |-> d, color |-> JNull]) :
            f \in {JNull, JNum(3)}, d \in {JNull, Str("d")}}
    \cup {ToolCall("service_items.get_parent_service_items", a) :
            a \in {ParentItemsDefaults,
                   [ParentItemsDefaults EXCEPT
                       !.parent_service_item_ids = JStr(<<"10", ",", "11">>),
                       !.fields = Str("risks")],
                   [ParentItemsDefaults EXCEPT
                       !.offset = JNum(0), !.limit = JNum(0), !.pin_filter = JNum(0)],
                   [ParentItemsDefaults EXCEPT
                       !.offset = JNum(20), !.pin_filter = JNum(1),
                       !.time_zone = Str("Europe/Paris"), !.order_direction = Str("asc")],
                   [ParentItemsDefaults EXCEPT
                       !.service_id = JNum(4), !.order_by = Str("name")]}}
    \cup {ToolCall("forecasting.get_forecast_v3",
                   [project_id |-> JNum(1), work_bundle_ids |-> w, service_item_ids |-> JNull,
                    confidence_level |-> JNum(80), time_zone |-> Str("UTC")]) :
            w \in {JNull, JStr(<<"7">>), JStr(<<"3", ",", "1", ",", "2">>)}}
    \cup {ToolCall("metrics.get_metrics_v2_item_props",
                   [project_id |-> JNum(1), item_types |-> t, search |-> Str("pts")]) :
            t \in {JNull, JStr(<<"story", ",", "bug">>), JStr(<<"a", ",", ",", "b">>)}}
    \cup {ToolCall("attainment.create_attainment_widget",
                   [org_id |-> JNum(1), dashboard_id |-> JNum(2), goal_ids |-> g,
                    widget_type |-> Str("progress_bar"), title |-> Str("Goal Progress")]) :
            g \in IdListValues}
    \cup {ToolCall("milestones.create_milestone",
                   [project_id |-> JNum(1), name |-> Str("m"),
                    target_date |-> JStr(<<"2024", "-", "01", "-", "01">>),
                    milestone_type |-> Str("custom"), description |-> JNull,
                    owner_id |-> JNull, work_item_ids |-> w]) :
            w \in {JNull, JStr(<<"7">>), JStr(<<"1", ",", "x">>)}}
    \cup {ToolCall("portfolio.create_portfolio",
                   [org_id |-> JNum(1), name |-> Str("p"), description |-> Str("d"),
                    owner_id |-> JNum(3), project_ids |-> i]) :
            i \in {JNull, JStr(<<"1", "2", ",", "-", "3">>), JStr(<<"1", ",", "x">>)}}
    \cup {ToolCall("metrics.get_generated_metric",
                   [project_id |-> JNum(1), metric_type |-> v]) : v \in IdentifierValues}
    \cup {ToolCall("service_items.get_service_items_for_metric",
                   [metric |-> v, ordering |-> JNull, limit |-> JNum(100), offset |-> JNum(0)]) :
            v \in IdentifierValues}
    \cup {ToolCall("service_items.get_item_props_by_type",
                   [project_id |-> JNum(1), item_type |-> v]) : v \in IdentifierValues}
    \cup {ToolCall("labels.update_label",
                   [org_id |-> JNum(1), label_id |-> JNum(2), label_data |-> v]) :
            v \in {JStr(BodyA1), JStr(<<"null">>), JStr(<<"5">>),
                   JStr(<<Quote, "x", Quote>>)}}
    \cup {ToolCall("service_items.delete_service_item_notes",
                   [project_id |-> JNum(1), milestone_item_id |-> JNum(2)])}
    \cup {ToolCall("service_items.update_metrics_filter_set",
                   [project_id |-> JNum(1), filter_set_id |-> JNum(2), name |-> n,
                    filter_set |-> v]) :
            n \in {JNull, Str("n")},
            v \in {JNull, JStr(BodyA1), JStr(BodyMalformed), JStr(<<>>)}}
    \cup {ToolCall("users_teams.create_user_invite",
                   [org_id |-> JNum(1), email |-> Str("a@b.c"), role_id |-> r,
                    projects |-> v]) :
            r \in {JNull, JNum(2)}, v \in {JNull, JStr(BodyList), JStr(BodyMalformed)}}

ServerToolInputs ==
    {ToolCall("server.list_metrics", [org_id |-> v]) : v \in {JNull, JNum(7), JNum(0)}}
    \cup {ToolCall("server.get_gmdts_data", [GmdtsDefaults EXCEPT !.filters = v]) :
            v \in {JNull, JStr(<<"{", "}">>), JStr(BodyMalformed)}}
    \cup {ToolCall("server.get_metrics_v2_data", [project_id |-> JNum(1), config |-> v]) :
            v \in JsonArgValues}
    \cup {ToolCall("server.create_metrics_v2_config",
                   [project_id |-> JNum(1), name |-> Str("n"), config |-> v,
                    description |-> d]) :
            v \in {JStr(<<"{", "}">>), JStr(BodyMalformed)}, d \in {JNull, Str("d")}}
    \cup {ToolCall("server.get_parent_service_items",
                   [project_id |-> JNum(1), service_item_ids |-> JStr(<<"10", ",", "11">>),
                    depth |-> v]) :
            v \in DepthValues}

\* what the upstream side answers to a tool's request
\* a body with a list nested in an object, a negative number, false, null,
\* an empty list, and strings that hold a quote, a backslash and a blank
BodyNested ==
    <<"{", Quote, "name", Quote, ":", " ", Quote, "say", " ", EscQuote, "hi", EscQuote, Quote, ",",
      Quote, "ids", Quote, ":", "[", "-", "3", ",", "false", ",", "null", ",", "[", "]", "]", ",",
      Quote, "path", Quote, ":", Quote, "a", EscBackslash, "b", Quote, "}">>

ToolOutcomes ==
    {HttpResponse(200, BodyNested), HttpResponse(200, <<"null">>),
     HttpResponse(204, <<>>),
     HttpResponse(404, BodyNotFound),
     TransportError("ConnectError", <<"All connection attempts failed">>)}

\* the host dispatches a tool call: the tool validates its arguments, builds
\* the request descriptor and awaits api_client.request, or returns at once;
\* api_client.request on the unset global (None) is an AttributeError
InvokeTool(c, tool, args) ==
    /\ CanInvoke(c)
    /\ c <= MaxToolCalls
    /\ tool \in (IF deployment = "server" THEN ServerTools ELSE PackageTools)
    /\ \E plan \in {ToolPlan(tool, args)} :
        LET call == [IdleCall EXCEPT !.tool = tool, !.args = args]
        IN  calls' = [calls EXCEPT ![c] =
                        IF plan.act = "request" /\ api_client = JNull
                        THEN [call EXCEPT !.pc = "raised"]
                        ELSE IF plan.act = "request"
                        THEN request_begin(call, api_client, plan.d)
                        ELSE IF plan.act = "raise"
                        THEN [call EXCEPT !.pc = "raised"]
                        ELSE [call EXCEPT !.pc = "returned", !.ret = plan.ret]]
    /\ UNCHANGED <<deployment, api_client>>

ToolNext ==
    \/ \E t \in Tokens, b \in BaseUrls : Main(t, b)
    \/ \E u \in Usernames, p \in Passwords : client_init(u, p, DefaultBaseUrl)
    \/ \E c \in CallIds, i \in PackageToolInputs \cup ServerToolInputs :
          InvokeTool(c, i.tool, i.args)
    \/ \E c \in CallIds, o \in ToolOutcomes : Resume(c, o)

ToolSpec == Init /\ [][ToolNext]_vars

(***************************************************************************)
(* Properties of the shim.                                                 *)
(***************************************************************************)
\* the normalized error record: error is the boolean true, message a string
IsErrorRecord(v) ==
    /\ IsDict(v)
    /\ {"error", "message"} \subseteq DOMAIN v.o
    /\ v.o["error"] = JBool(TRUE)
    /\ v.o["message"].t = "str"

Answered(c) == calls[c].outcome.kind # "none"

GotResponse(c) == calls[c].outcome.kind = "response"

GotSuccess(c) == GotResponse(c) /\ calls[c].outcome.status \in 200..299

GotJson(c) == GotSuccess(c) /\ JsonLoads(calls[c].outcome.body).ok

\* C1: request never raises: whatever the upstream outcome (2xx with JSON,
\* 2xx without JSON, a non-2xx status, a connection failure, a timeout), a
\* call that has been answered has returned, and what it returned is the
\* decoded body or an error record.
C1_RequestAlwaysReturns ==
    \A c \in CallIds :
        /\ calls[c].pc # "raised"
        /\ Answered(c) =>
              /\ calls[c].pc = "returned"
              /\ calls[c].result # NoValue
              /\ LET body == JsonLoads(calls[c].outcome.body)
                 IN  IF GotSuccess(c) /\ body.ok
                     THEN calls[c].result = body.val
                     ELSE IsErrorRecord(calls[c].result)

C1_Witness ==
    \E a, b \in CallIds :
        /\ calls[a].pc = "returned" /\ calls[a].outcome.kind = "failure"
        /\ calls[b].pc = "returned" /\ GotSuccess(b) /\ ~GotJson(b)

\* C2: a 2xx response with a JSON body B makes request return exactly the
\* decoded B; status 200 with body {"a": 1} returns the dict {"a": 1}.
C2_SuccessBodyVerbatim ==
    \A c \in CallIds :
        GotSuccess(c) =>
            /\ LET body == JsonLoads(calls[c].outcome.body)
               IN  body.ok => calls[c].result = body.val
            /\ calls[c].outcome.body = BodyA1 => calls[c].result = JObj([a |-> JNum(1)])
            /\ calls[c].outcome.body = BodyErrorTrue =>
                  calls[c].result = JObj([error |-> JBool(TRUE)])

C2_Witness ==
    \E a, b \in CallIds :
        /\ calls[a].pc = "returned" /\ calls[a].outcome = HttpResponse(200, BodyA1)
        /\ calls[b].pc = "returned" /\ calls[b].outcome = HttpResponse(201, BodyErrorTrue)

\* C3: a response with a non-success status S (3xx, 4xx, 5xx) makes request
\* return {error: true, status_code: S, message: text containing the upstream
\* body}, with exactly these three keys whatever S is.
C3_StatusErrorRecord ==
    \A c \in CallIds :
        (GotResponse(c) /\ calls[c].outcome.status \in 300..599) =>
            /\ IsDict(calls[c].result)
            /\ DOMAIN calls[c].result.o = {"error", "status_code", "message"}
            /\ calls[c].result.o["error"] = JBool(TRUE)
            /\ calls[c].result.o["status_code"] = JNum(calls[c].outcome.status)
            /\ calls[c].result.o["message"].t = "str"
            /\ Contains(calls[c].result.o["message"].s, calls[c].outcome.body)

C3_Witness ==
    \E a, b \in CallIds :
        /\ calls[a].pc = "returned" /\ calls[a].outcome.status = 301
        /\ calls[b].pc = "returned" /\ calls[b].outcome.status = 404
        /\ calls[b].result.o["status_code"] = JNum(404)

\* C4: when no HTTP response is received (connection failure, timeout),
\* request returns {error: true, message: text} and the record has no
\* status_code key.
C4_TransportErrorRecord ==
    \A c \in CallIds :
        calls[c].outcome.kind = "failure" =>
            /\ IsErrorRecord(calls[c].result)
            /\ DOMAIN calls[c].result.o = {"error", "message"}

C4_Witness ==
    \E a, b \in CallIds :
        /\ calls[a].pc = "returned" /\ calls[a].outcome.exc = "ConnectError"
        /\ calls[b].pc = "returned" /\ calls[b].outcome.exc = "ReadTimeout"
        /\ "status_code" \notin DOMAIN calls[b].result.o

\* C5: a 2xx response whose body is not JSON (malformed, or empty as in a 204
\* reply) resolves to the transport/other error: {error: true, message} with
\* no status_code.
C5_UndecodableBodyIsOtherError ==
    \A c \in CallIds :
        (GotSuccess(c) /\ ~GotJson(c)) =>
            /\ calls[c].pc = "returned"
            /\ IsErrorRecord(calls[c].result)
            /\ DOMAIN calls[c].result.o = {"error", "message"}

C5_Witness ==
    \E a, b \in CallIds :
        /\ calls[a].pc = "returned" /\ calls[a].outcome = HttpResponse(204, <<>>)
        /\ calls[b].pc = "returned" /\ calls[b].outcome = HttpResponse(200, BodyMalformed)
        /\ calls[a].args.method = "DELETE"

\* C6: an invocation of request issues exactly one outbound request, and
\* issues no further one after a status error or a transport failure.
C6_OneRoundTrip ==
    \A c \in CallIds :
        calls[c].tool = "request" =>
            /\ Len(calls[c].sent) = 1
            /\ Answered(c) => calls[c].pc \in {"returned", "raised"}

C6_Witness ==
    \E a, b \in CallIds :
        /\ calls[a].pc = "returned" /\ calls[a].outcome.status = 500
        /\ calls[b].pc = "returned" /\ calls[b].outcome.kind = "failure"
        /\ Len(calls[a].sent) = 1 /\ Len(calls[b].sent) = 1

\* C7: no memoization: two GET calls with identical arguments issue one
\* outbound request each, and each returns the body of its own response.
C7_NoMemoization ==
    \A a, b \in CallIds :
        (a # b /\ calls[a].tool = "request" /\ calls[b].tool = "request"
             /\ calls[a].args = calls[b].args /\ calls[a].args.method = "GET") =>
            /\ Len(calls[a].sent) = 1 /\ Len(calls[b].sent) = 1
            /\ (GotSuccess(a) /\ GotSuccess(b)) =>
                  LET bodyA == JsonLoads(calls[a].outcome.body)
                      bodyB == JsonLoads(calls[b].outcome.body)
                  IN  (bodyA.ok /\ bodyB.ok) =>
                          /\ calls[a].result = bodyA.val
                          /\ calls[b].result = bodyB.val
                          /\ calls[a].outcome.body # calls[b].outcome.body =>
                                calls[a].result # calls[b].result

C7_Witness ==
    \E a, b \in CallIds :
        /\ a < b
        /\ calls[a].tool = "request" /\ calls[b].tool = "request"
        /\ calls[a].args = calls[b].args /\ calls[a].args.method = "GET"
        /\ calls[a].outcome = HttpResponse(200, BodyA1)
        /\ calls[b].outcome = HttpResponse(201, BodyErrorTrue)
        /\ calls[b].result = JObj([error |-> JBool(TRUE)])
        /\ calls[a].result = JObj([a |-> JNum(1)])

\* C10: for every method, request called with a path, no params and no body
\* issues one request to {base_url}/{path} that carries the configured headers
\* (Content-Type and Accept: application/json) and the configured credential,
\* and has no query string and no body.
C10_BareRequestShape ==
    \A c \in CallIds :
        (calls[c].tool = "request" /\ calls[c].args.params = JNull
             /\ calls[c].args.data = JNull) =>
            LET w == calls[c].sent[1]
            IN  /\ w.method = calls[c].args.method
                /\ w.url = api_client.base_url \o <<"/">> \o calls[c].args.endpoint
                /\ \A i \in 1..(Len(w.url) - 1) :
                      (w.url[i] = "/" /\ w.url[i + 1] = "/") => i = 3
                /\ ~Contains(w.url, <<"?">>)
                /\ w.params = JNull
                /\ w.json = JNull
                /\ {"Content-Type", "Accept"} \subseteq DOMAIN w.headers
                /\ w.headers["Content-Type"] = "application/json"
                /\ w.headers["Accept"] = "application/json"
                /\ deployment = "package" =>
                      /\ DOMAIN w.headers = {"Content-Type", "Accept"}
                      /\ w.auth = <<"user", "pw">>
                /\ deployment = "server" =>
                      /\ DOMAIN w.headers = {"Content-Type", "Accept", "Authorization"}
                      /\ w.headers["Authorization"] = "Bearer tok"
                      /\ w.auth = <<>>

C10_Witness ==
    \E a, b \in CallIds :
        /\ calls[a].tool = "request" /\ calls[a].args.method = "PATCH"
        /\ calls[b].tool = "request" /\ calls[b].args.method = "DELETE"
        /\ calls[a].args.params = JNull /\ calls[a].args.data = JNull
        /\ calls[b].args.params = JNull /\ calls[b].args.data = JNull
        /\ calls[a].pc = "returned"
        /\ Len(api_client.base_url) = 9

(***************************************************************************)
(* Properties of the tools.                                                *)
(***************************************************************************)
\* the parameters a tool documents as a JSON string
JsonStringArgs(tool) ==
    CASE tool = "metrics.get_project_metrics_v2_data" -> {"config"}
      [] tool = "service_items.update_metrics_filter_set" -> {"filter_set"}
      [] tool = "labels.update_label" -> {"label_data"}
      [] tool = "users_teams.create_user_invite" -> {"projects"}
      [] tool = "server.get_gmdts_data" -> {"filters"}
      [] tool = "server.get_metrics_v2_data" -> {"config"}
      [] tool = "server.create_metrics_v2_config" -> {"config"}
      [] OTHER -> {}

\* the parameters a tool declares as Optional[...] = None
OptionalParams(tool) ==
    CASE tool = "metrics.list_metrics" -> {"project_id"}
      [] tool = "labels.create_label" -> {"label_family_id", "description", "color"}
      [] tool = "service_items.get_parent_service_items" ->
            {"parent_service_item_ids", "parent_service_item_types",
             "parent_service_item_groups", "service_id", "offset", "limit",
             "parent_service_item_name", "order_by", "pin_filter",
             "estimation_method_override", "fields"}
      [] tool = "service_items.update_metrics_filter_set" -> {"name", "filter_set"}
      [] tool = "forecasting.get_forecast_v3" -> {"work_bundle_ids", "service_item_ids"}
      [] tool = "metrics.get_metrics_v2_item_props" -> {"item_types", "search"}
      [] tool = "milestones.create_milestone" -> {"description", "owner_id", "work_item_ids"}
      [] tool = "service_items.get_service_items_for_metric" -> {"ordering"}
      [] tool = "portfolio.create_portfolio" -> {"project_ids"}
      [] tool = "users_teams.create_user_invite" -> {"role_id", "projects"}
      [] tool = "server.list_metrics" -> {"org_id"}
      [] tool = "server.get_gmdts_data" -> {"dimensions", "filters", "group_by"}
      [] tool = "server.create_metrics_v2_config" -> {"description"}
      [] OTHER -> {}

\* C8: a tool given a string that is not valid JSON for a parameter documented
\* as a JSON string returns a local error mentioning invalid JSON and issues
\* no outbound request.
C8_InvalidJsonRejectedLocally ==
    \A c \in CallIds :
        \A p \in JsonStringArgs(calls[c].tool) :
            (calls[c].args[p].t = "str" /\ ~JsonLoads(calls[c].args[p].s).ok) =>
                /\ calls[c].sent = <<>>
                /\ calls[c].pc = "returned"
                /\ Contains(calls[c].ret, <<"Invalid JSON">>)

\* C9: for every optional parameter the caller omits, neither the query
\* parameters nor the JSON body of the request contain its key.
C9_OmittedMeansAbsent ==
    \A c \in CallIds :
        calls[c].sent # <<>> =>
            \A p \in OptionalParams(calls[c].tool) :
                calls[c].args[p] = JNull =>
                    \A k \in {p, p \o "[]"} :
                        /\ ~HasKey(calls[c].sent[1].params, k)
                        /\ ~HasKey(calls[c].sent[1].json, k)

(***************************************************************************)
(* URL construction: request called with paths and base URLs that differ   *)
(* only in their leading and trailing slashes.                             *)
(***************************************************************************)
\* slashes put in front of and behind a path, and behind a base URL
MaxSlashes == 2

Slashes(n) == [i \in 1..n |-> "/"]

PathCore == <<"project", "/", "1">>

UrlPaths == {Slashes(l) \o PathCore \o Slashes(t) : l, t \in 0..MaxSlashes}

UrlBaseUrls ==
    {<<"https", ":", "/", "/", "localhost", "/", "api">> \o Slashes(t) : t \in 0..MaxSlashes}

UrlOutcomes == {HttpResponse(200, BodyA1)}

UrlNext ==
    \/ \E t \in Tokens, b \in UrlBaseUrls : Main(t, b)
    \/ \E u \in Usernames, p \in Passwords, b \in UrlBaseUrls : client_init(u, p, b)
    \/ \E c \in CallIds, p \in UrlPaths : CallRequest(c, Descriptor("GET", p, JNull, JNull))
    \/ \E c \in CallIds, o \in UrlOutcomes : Resume(c, o)

UrlSpec == Init /\ [][UrlNext]_vars

\* C11: the request URL does not depend on the number of leading or trailing
\* slashes of the path: two calls whose paths are equal once their leading and
\* trailing slashes are removed go to the same URL, and that URL is the base
\* URL without its trailing slashes, one slash, and the path.
C11_PathSlashesNormalized ==
    \A a, b \in CallIds :
        (calls[a].tool = "request" /\ calls[b].tool = "request"
             /\ RStrip(LStrip(calls[a].args.endpoint)) = RStrip(LStrip(calls[b].args.endpoint))) =>
            /\ calls[a].sent[1].url = calls[b].sent[1].url
            /\ LET n == Len(api_client.base_url)
               IN  /\ api_client.base_url[n] # "/"
                   /\ SubSeq(calls[a].sent[1].url, 1, n + 1) = api_client.base_url \o <<"/">>
                   /\ calls[a].sent[1].url[n + 2] # "/"

\* the parameters a tool documents as a comma-separated list and sends as a
\* query parameter
ListParams(tool) ==
    CASE tool = "service_items.get_parent_service_items" ->
            {"parent_service_item_ids", "parent_service_item_types",
             "parent_service_item_groups", "fields"}
      [] tool = "forecasting.get_forecast_v3" -> {"work_bundle_ids", "service_item_ids"}
      [] tool = "metrics.get_metrics_v2_item_props" -> {"item_types"}
      [] OTHER -> {}

\* ",".join(x.s for x in elems)
RECURSIVE JoinComma(_)
JoinComma(elems) ==
    IF Len(elems) = 0 THEN <<>>
    ELSE IF Len(elems) = 1 THEN elems[1].s
    ELSE elems[1].s \o <<",">> \o JoinComma(Tail(elems))

\* C12: in every request a tool builds, a list-valued query parameter sits
\* under key[] and holds the comma-separated tokens of the caller's argument,
\* one element each and in the caller's order; no list sits under a key
\* without [] and every [] key carries a list.
C12_ListParamsBracketed ==
    \A c \in CallIds :
        (calls[c].sent # <<>> /\ calls[c].tool # "request"
             /\ IsDict(calls[c].sent[1].params)) =>
            LET q == calls[c].sent[1].params.o
                bracketed == {p \o "[]" : p \in ListParams(calls[c].tool)}
            IN  /\ \A k \in DOMAIN q : q[k].t = "arr" <=> k \in bracketed
                /\ \A p \in ListParams(calls[c].tool) :
                      /\ p \notin DOMAIN q
                      /\ (calls[c].args[p].t = "str" /\ calls[c].args[p].s # <<>>) =>
                            /\ (p \o "[]") \in DOMAIN q
                            /\ LET elems == q[p \o "[]"].a
                               IN  /\ \A i \in 1..Len(elems) :
                                         /\ elems[i].t = "str"
                                         /\ ~Contains(elems[i].s, <<",">>)
                                   /\ JoinComma(elems) = calls[c].args[p].s

C12_Witness ==
    \E c \in CallIds :
        /\ calls[c].tool = "forecasting.get_forecast_v3"
        /\ calls[c].pc = "returned"
        /\ HasKey(calls[c].sent[1].params, "work_bundle_ids[]")
        /\ calls[c].sent[1].params.o["work_bundle_ids[]"] =
              JArr(<<Str("3"), Str("1"), Str("2")>>)

(***************************************************************************)
(* Progress.  The upstream is under no obligation to answer; the only step *)
(* the program itself guarantees is the expiry of the AsyncClient timeout  *)
(* (timeout=30.0), which ends the await with a timeout exception.          *)
(***************************************************************************)
TimeoutExceptions == {"ConnectTimeout", "ReadTimeout"}

\* AsyncClient(timeout=None): no timer, the await is never interrupted
TimeoutExpires_never(c) ==
    /\ FALSE
    /\ UNCHANGED vars

\* the 30 second timer of an awaiting call runs out: the await raises
TimeoutExpires(c) ==
    \E e \in TimeoutExceptions : Resume(c, TransportError(e, <<>>))

LiveInputs ==
    {Descriptor("GET", <<"metrics", "/">>, JNull, JNull),
     Descriptor("POST", <<"/", "project", "/", "1", "/", "configs", "/">>,
                JObj([limit |-> JNum(5)]), JObj([name |-> JStr(<<"n">>)]))}

\* what an upstream that does answer sends
LiveAnswers ==
    {HttpResponse(200, BodyA1), HttpResponse(204, <<>>), HttpResponse(500, <<"Server Error">>),
     TransportError("ConnectError", <<"All connection attempts failed">>)}

LiveNext ==
    \/ \E t \in Tokens, b \in BaseUrls : Main(t, b)
    \/ \E u \in Usernames, p \in Passwords, b \in BaseUrls : client_init(u, p, b)
    \/ \E c \in CallIds, d \in LiveInputs : CallRequest(c, d)
    \/ \E c \in CallIds, o \in LiveAnswers : Resume(c, o)
    \/ \E c \in CallIds : TimeoutExpires(c)

\* fairness on the timer only: answers may never come
LiveSpec ==
    /\ Init
    /\ [][LiveNext]_vars
    /\ \A c \in CallIds : WF_vars(TimeoutExpires(c))

\* C13: every invocation of request eventually resolves; a call whose await
\* ended by the timeout has returned the transport-error record {error: true,
\* message} without status_code.
C13_EventuallyResolves ==
    \A c \in CallIds :
        (calls[c].pc = "awaiting") ~>
            (/\ calls[c].pc = "returned"
             /\ calls[c].outcome.exc \in TimeoutExceptions =>
                   /\ IsErrorRecord(calls[c].result)
                   /\ DOMAIN calls[c].result.o = {"error", "message"})

C13_Witness ==
    \E c \in CallIds :
        /\ calls[c].tool = "request"
        /\ calls[c].pc = "returned"
        /\ calls[c].outcome.exc = "ReadTimeout"
        /\ calls[c].result =
              JObj([error |-> JBool(TRUE), message |-> JStr(<<"Request failed", ":", " ">>)])

(***************************************************************************)
(* Concurrent invocations.                                                 *)
(***************************************************************************)
\* the outbound request of call c carries c's own method, path, params, body
OwnRequest(c) ==
    LET w == calls[c].sent[1]
        e == LStrip(calls[c].args.endpoint)
    IN  /\ Len(calls[c].sent) = 1
        /\ w.method = calls[c].args.method
        /\ SubSeq(w.url, Len(w.url) - Len(e) + 1, Len(w.url)) = e
        /\ w.params = calls[c].args.params
        /\ w.json = calls[c].args.data

\* what call c returned is built from the outcome of c's own round-trip
OwnResult(c) ==
    LET o == calls[c].outcome
        r == calls[c].result
    IN  IF o.kind = "failure"
        THEN /\ IsErrorRecord(r)
             /\ r.o["message"].s = <<"Request failed", ":", " ">> \o o.msg
        ELSE IF o.status \in 200..299 /\ JsonLoads(o.body).ok
        THEN r = JsonLoads(o.body).val
        ELSE IF o.status \in 200..299
        THEN IsErrorRecord(r) /\ "status_code" \notin DOMAIN r.o
        ELSE /\ IsErrorRecord(r)
             /\ HasKey(r, "status_code")
             /\ r.o["status_code"] = JNum(o.status)
             /\ r.o["message"].s = <<"HTTP error", ":", " ">> \o o.body

\* C14: under every interleaving of in-flight request calls on one client,
\* each call sends its own request and returns the result built from its own
\* response or failure, and a step of one call changes no other call's
\* record and not the client.
C14_NoSharedState ==
    /\ [](\A c \in CallIds :
            /\ calls[c].tool = "request" => OwnRequest(c)
            /\ (calls[c].tool = "request" /\ calls[c].pc = "returned") => OwnResult(c))
    /\ [][\A c \in CallIds :
            calls'[c] # calls[c] =>
                /\ \A b \in CallIds \ {c} : calls'[b] = calls[b]
                /\ api_client' = api_client]_vars

C14_Witness ==
    \E a, b \in CallIds :
        /\ a < b
        /\ calls[a].tool = "request" /\ calls[b].tool = "request"
        /\ calls[a].args # calls[b].args
        /\ calls[a].pc = "awaiting"
        /\ calls[b].pc = "returned"
        /\ calls[b].result = JObj([a |-> JNum(1)])
        /\ calls[b].sent[1].params = JObj([limit |-> JNum(5)])
        /\ calls[a].sent[1].params = JNull

\* C15: a call suspended in its await blocks nobody: while it waits, the next
\* invocation can be issued and sends its request at once, and any other
\* awaiting call can take its answer and return.
C15_NotSerialized ==
    \A a, b \in CallIds :
        (a # b /\ calls[a].pc = "awaiting") =>
            /\ (calls[b].pc = "idle" /\ \A x \in CallIds : x < b => calls[x].pc # "idle") =>
                  \A d \in LiveInputs : ENABLED CallRequest(b, d)
            /\ calls[b].pc = "awaiting" =>
                  /\ ENABLED Resume(b, HttpResponse(204, <<>>))
                  /\ ENABLED Resume(b, HttpResponse(500, <<"Server Error">>))
                  /\ ENABLED TimeoutExpires(b)
            /\ calls[b].pc \in {"awaiting", "returned"} => Len(calls[b].sent) = 1

C15_Witness ==
    \E a, b \in CallIds :
        /\ a < b
        /\ calls[a].pc = "awaiting" /\ calls[a].outcome = NoOutcome
        /\ calls[b].pc = "returned" /\ calls[b].outcome = HttpResponse(204, <<>>)
        /\ calls[b].result # NoValue

\* the credential a client object holds
Credential(self) ==
    IF "auth" \in DOMAIN self THEN self.auth ELSE self.headers["Authorization"]

\* the credential an outbound request carries
WireCredential(w) ==
    IF w.auth # <<>> THEN w.auth
    ELSE IF "Authorization" \in DOMAIN w.headers THEN w.headers["Authorization"]
    ELSE <<>>

\* C16: once constructed the client never changes: no request, successful or
\* failed, alters base_url, credential or headers, and every outbound request
\* carries that same credential and the static headers.
C16_ClientImmutable ==
    /\ [][api_client # JNull => api_client' = api_client]_vars
    /\ [](\A c \in CallIds :
            calls[c].sent # <<>> =>
                LET w == calls[c].sent[1]
                    n == Len(api_client.base_url)
                IN  /\ SubSeq(w.url, 1, n) = api_client.base_url
                    /\ w.headers = api_client.headers
                    /\ WireCredential(w) = Credential(api_client)
                    /\ \A h \in DOMAIN StaticHeaders : w.headers[h] = StaticHeaders[h]
                    /\ \A b \in CallIds :
                          calls[b].sent # <<>> =>
                              /\ WireCredential(calls[b].sent[1]) = WireCredential(w)
                              /\ calls[b].sent[1].headers = w.headers)

C16_Witness ==
    \E a, b \in CallIds :
        /\ a # b
        /\ calls[a].pc = "returned" /\ calls[a].outcome = HttpResponse(200, BodyA1)
        /\ calls[b].pc = "returned" /\ calls[b].outcome.kind = "failure"
        /\ calls[a].sent[1].headers = calls[b].sent[1].headers
        /\ api_client.base_url = <<"https", ":", "/", "/", "api.allstacks.com", "/", "api", "/", "v1">>

\* C17: no unhandled fault escapes a tool invocation: whatever its string
\* arguments, a tool never ends by raising, and a tool that has ended has
\* returned a result string.
C17_NoFaultEscapes ==
    \A c \in CallIds :
        (calls[c].tool # "" /\ calls[c].tool # "request") =>
            /\ calls[c].pc # "raised"
            /\ calls[c].pc = "returned" => calls[c].ret # <<>>

\* C18: every string a tool returns decodes to a Result: the decoded body of
\* a successful response, or an error record whose error field is the boolean
\* true and whose message is a string; the local error for an invalid JSON
\* string argument included.
C18_ToolReturnsResult ==
    \A c \in CallIds :
        (calls[c].tool # "" /\ calls[c].tool # "request" /\ calls[c].pc = "returned") =>
            LET r == JsonLoads(calls[c].ret)
            IN  /\ r.ok
                /\ \/ /\ GotSuccess(c)
                      /\ JsonLoads(calls[c].outcome.body).ok
                      /\ r.val = JsonLoads(calls[c].outcome.body).val
                   \/ IsErrorRecord(r.val)

\* C19: a deployment uses one credential scheme on every outbound request:
\* the package client sends the Basic username/password pair and no
\* Authorization header, the server.py client sends the bearer Authorization
\* header and no Basic pair, and no request goes out without its credential.
C19_OneCredentialScheme ==
    \A c \in CallIds :
        \A i \in 1..Len(calls[c].sent) :
            LET w == calls[c].sent[i]
            IN  /\ deployment = "package" =>
                      /\ w.auth = <<api_client.username, api_client.password>>
                      /\ w.auth[1] \in Usernames /\ w.auth[2] \in Passwords
                      /\ "Authorization" \notin DOMAIN w.headers
                /\ deployment = "server" =>
                      /\ w.auth = <<>>
                      /\ "Authorization" \in DOMAIN w.headers
                      /\ w.headers["Authorization"] = "Bearer " \o api_client.token
                      /\ api_client.token \in Tokens

C19_Witness ==
    \E a, b \in CallIds :
        /\ a # b
        /\ deployment = "server"
        /\ calls[a].sent # <<>> /\ calls[a].args.method = "POST"
        /\ calls[b].sent # <<>> /\ calls[b].args.method = "GET"
        /\ calls[a].sent[1].headers["Authorization"] = "Bearer tok"
        /\ calls[b].pc = "returned"

\* the number of segments of the endpoint template of a tool that
\* substitutes a string identifier
TemplateSegments(tool) ==
    CASE tool = "metrics.get_generated_metric" -> 4
      [] tool = "service_items.get_service_items_for_metric" -> 2
      [] tool = "service_items.get_item_props_by_type" -> 4
      [] OTHER -> 0

\* the path of a URL text: what precedes the first '?'
RECURSIVE PathPart(_)
PathPart(url) ==
    IF url = <<>> \/ Head(url) = "?" THEN <<>> ELSE <<Head(url)>> \o PathPart(Tail(url))

\* the number of segments of a path: maximal runs of units other than '/'
Segments(path) ==
    Cardinality({i \in 1..Len(path) : path[i] # "/" /\ (i = 1 \/ path[i - 1] = "/")})

\* C20: a string identifier substituted into an endpoint template injects no
\* path separator: the outbound path has as many segments as the template,
\* whatever the identifier is, and the identifier opens no query string.
C20_NoInjectedSeparators ==
    \A c \in CallIds :
        (TemplateSegments(calls[c].tool) # 0 /\ calls[c].sent # <<>>) =>
            LET url == calls[c].sent[1].url
                n == Len(api_client.base_url)
                path == PathPart(SubSeq(url, n + 1, Len(url)))
            IN  /\ Segments(path) = TemplateSegments(calls[c].tool)
                /\ ~Contains(url, <<"?">>)

\* C21: the body of every request a tool sends is absent or a mapping, also
\* when the tool forwards a decoded JSON-string argument as the whole body and
\* the argument is a JSON array, number, string or null.
C21_BodyIsMapping ==
    \A c \in CallIds :
        (calls[c].tool # "" /\ calls[c].tool # "request" /\ calls[c].sent # <<>>) =>
            \/ calls[c].sent[1].json = JNull
            \/ IsDict(calls[c].sent[1].json)

\* the value request carries under key k, in the query or in the body
Attached(w, k) ==
    IF HasKey(w.params, k) THEN w.params.o[k]
    ELSE IF HasKey(w.json, k) THEN w.json.o[k]
    ELSE NoValue

\* C22: every optional parameter the caller supplies (any value other than
\* None, the values 0, "" and false included) is in the query or the body of
\* the request under its key, with the value supplied.
C22_ProvidedMeansAttached ==
    \A c \in CallIds :
        calls[c].sent # <<>> =>
            \A p \in OptionalParams(calls[c].tool) :
                calls[c].args[p] # JNull =>
                    LET w == calls[c].sent[1]
                    IN  IF p \in ListParams(calls[c].tool)
                        THEN Attached(w, p \o "[]") # NoValue
                        ELSE IF p \in JsonStringArgs(calls[c].tool)
                        THEN Attached(w, p) # NoValue
                        ELSE Attached(w, p) = calls[c].args[p]

\* C23: the client is constructed from the command line (the token, and the
\* base URL given or its default) before the server dispatches: no tool has
\* been invoked while api_client is unset, and the requests of server.py go
\* out with that token to that base URL.
C23_ClientSetBeforeDispatch ==
    \A c \in CallIds :
        calls[c].tool # "" =>
            /\ api_client # JNull
            /\ deployment = "server" =>
                  /\ api_client.token \in Tokens
                  /\ \E b \in BaseUrls : api_client.base_url = RStrip(b)
                  /\ calls[c].sent # <<>> =>
                        /\ SubSeq(calls[c].sent[1].url, 1, Len(api_client.base_url))
                              = api_client.base_url
                        /\ calls[c].sent[1].headers["Authorization"]
                              = "Bearer " \o api_client.token

C23_Witness ==
    \E c \in CallIds :
        /\ deployment = "server"
        /\ calls[c].tool = "server.list_metrics"
        /\ calls[c].pc = "returned"
        /\ api_client # JNull
        /\ calls[c].sent[1].url =
              <<"https", ":", "/", "/", "api.allstacks.com", "/", "api", "/", "v1", "/",
                "metrics", "/">>

\* C24: the depth query parameter server.py's get_parent_service_items sends
\* is an integer in 1..5: the argument itself when it is in 1..5, 1 when the
\* argument is below 1, 5 when it is above 5.
C24_DepthClamped ==
    \A c \in CallIds :
        (calls[c].tool = "server.get_parent_service_items" /\ calls[c].sent # <<>>) =>
            LET given == calls[c].args.depth.n
                q == calls[c].sent[1].params
            IN  /\ HasKey(q, "depth")
                /\ q.o["depth"].t = "num"
                /\ q.o["depth"].n \in 1..5
                /\ given \in 1..5 => q.o["depth"].n = given
                /\ given < 1 => q.o["depth"].n = 1
                /\ given > 5 => q.o["depth"].n = 5

C24_Witness ==
    \E c \in CallIds :
        /\ calls[c].tool = "server.get_parent_service_items"
        /\ calls[c].args.depth.n > 5
        /\ calls[c].pc = "returned"
        /\ calls[c].sent[1].params.o["depth"] = JNum(5)

\* C25: one tool invocation causes at most one outbound request: exactly one
\* when the tool's local argument validation passes, none when it fails.
C25_AtMostOneRequest ==
    \A c \in CallIds :
        (calls[c].tool # "" /\ calls[c].tool # "request") =>
            /\ Len(calls[c].sent) <= 1
            /\ \E plan \in {ToolPlan(calls[c].tool, calls[c].args)} :
                  Len(calls[c].sent) = IF plan.act = "request" THEN 1 ELSE 0

C25_Witness ==
    \E c \in CallIds :
        /\ calls[c].tool = "users_teams.create_user_invite"
        /\ calls[c].args.projects = JStr(BodyList)
        /\ calls[c].pc = "returned"
        /\ calls[c].outcome.kind = "failure"
        /\ Len(calls[c].sent) = 1

\* the AsyncClient instances open over all calls
RECURSIVE OpenClients(_)
OpenClients(ids) ==
    IF ids = {} THEN 0
    ELSE LET c == CHOOSE x \in ids : TRUE
         IN  calls[c].open + OpenClients(ids \ {c})

\* C26: the per-request AsyncClient is closed on every exit path of request
\* (success body, status error, transport error): a call holds one open
\* client exactly while it is in flight, so the open clients number the
\* in-flight calls and none is open when no call is in flight.
C26_ClientReleased ==
    /\ \A c \in CallIds : calls[c].open = IF calls[c].pc = "awaiting" THEN 1 ELSE 0
    /\ OpenClients(CallIds) = Cardinality({c \in CallIds : calls[c].pc = "awaiting"})

C26_Witness ==
    \E a, b \in CallIds :
        /\ calls[a].pc = "returned" /\ calls[a].outcome.kind = "failure"
        /\ calls[b].pc = "returned" /\ calls[b].outcome.status = 500
        /\ OpenClients(CallIds) = 0

\* C27: a returned value with top-level error = true comes from a failed
\* call only: when the upstream answered 2xx with a JSON body, what request
\* returned does not carry error = true, also when the body itself is an
\* object containing "error": true.
C27_ErrorFlagMeansFailure ==
    \A c \in CallIds :
        (calls[c].pc = "returned" /\ HasKey(calls[c].result, "error")
            /\ calls[c].result.o["error"] = JBool(TRUE)) =>
                ~GotJson(c)

\* C28: the package tool get_parent_service_items attaches offset, limit and
\* pin_filter exactly when the caller supplies a value other than None, with
\* the value supplied (0 included), and always sends time_zone and
\* order_direction (the caller's value, or the default when omitted).
C28_ZeroIsSent ==
    \A c \in CallIds :
        (calls[c].tool = "service_items.get_parent_service_items" /\ calls[c].sent # <<>>) =>
            LET q == calls[c].sent[1].params
                a == calls[c].args
            IN  /\ \A p \in {"offset", "limit", "pin_filter"} :
                      /\ HasKey(q, p) <=> a[p] # JNull
                      /\ HasKey(q, p) => q.o[p] = a[p]
                /\ \A p \in {"time_zone", "order_direction"} :
                      HasKey(q, p) /\ q.o[p] = a[p]

C28_Witness ==
    \E c \in CallIds :
        /\ calls[c].tool = "service_items.get_parent_service_items"
        /\ calls[c].args.offset = JNum(0)
        /\ calls[c].pc = "returned"
        /\ calls[c].sent[1].params.o["offset"] = JNum(0)
        /\ calls[c].sent[1].params.o["limit"] = JNum(0)
        /\ calls[c].sent[1].params.o["pin_filter"] = JNum(0)
        /\ calls[c].sent[1].params.o["time_zone"] = Str("UTC")
        /\ calls[c].sent[1].params.o["order_direction"] = Str("desc")

\* C29: the string a tool returns after its request is the JSON encoding of
\* what request returned: decoding it yields exactly that value, the
\* upstream's decoded body on success and the error record on failure.
C29_ReturnRoundTrips ==
    \A c \in CallIds :
        (calls[c].tool # "" /\ calls[c].tool # "request" /\ calls[c].pc = "returned"
            /\ calls[c].sent # <<>>) =>
            \E r \in {JsonLoads(calls[c].ret)} :
                /\ r.ok
                /\ r.val = calls[c].result
                /\ GotJson(c) => r.val = JsonLoads(calls[c].outcome.body).val
                /\ ~GotJson(c) => IsErrorRecord(r.val)

C29_Witness ==
    \E c \in CallIds :
        /\ calls[c].tool = "metrics.list_metrics"
        /\ calls[c].pc = "returned"
        /\ calls[c].outcome.body = BodyNested
        /\ Contains(calls[c].ret, <<"\n", " ", " ", Quote, "path", Quote, ":", " ">>)
        /\ JsonLoads(calls[c].ret).val.o["name"].s = <<"say", " ", Quote, "hi", Quote>>
        /\ JsonLoads(calls[c].ret).val.o["ids"].a[1] = JNum(0 - 3)

====
